---- MODULE Spec2Model ----
(***************************************************************************)
(* ExpenseTracker (src/main.py): the users and expenses tables of the      *)
(* SQLite database, and the six tool handlers register_user,               *)
(* regenerate_api_key, add_expense, list_expenses, summarize and           *)
(* delete_expense, each run by concurrent tasks that yield at every await. *)
(*                                                                         *)
(* Storage semantics taken from SQLite: every handler opens its own        *)
(* connection; a SELECT reads the committed rows; INSERT / UPDATE / DELETE *)
(* open a write transaction that holds the single writer lock until the    *)
(* handler's commit, and other writers wait for it (the busy timeout is    *)
(* assumed not to expire).  secrets.token_* draws are modelled as values   *)
(* that never repeat, PBKDF2 as an injective function of (password, salt). *)
(***************************************************************************)
EXTENDS Integers, Sequences, FiniteSets, TLC

VARIABLES
    users,       \* committed rows of table users
    expenses,    \* committed rows of table expenses
    seq,         \* sqlite_sequence.seq of table expenses (AUTOINCREMENT)
    rng,         \* number of values drawn from the secrets module so far
    wlock,       \* task holding SQLite's writer lock, 0 when free
    calls,       \* tool calls started so far (also the clock of datetime.now())
    task,        \* per task: position, arguments, locals, result
    key_owner,   \* history: committed api_key -> user_id it was issued to
    retired,     \* history: api_keys replaced by a committed rotation
    added_by,    \* history: expense id -> api_key presented by the add_expense that created it
    deleted_by   \* history: expense id -> api_key presented by the delete_expense that removed it

vars == <<users, expenses, seq, rng, wlock, calls, task, key_owner, retired, added_by, deleted_by>>

\* ------------------------------------------------------------------ bounds
MaxCalls == 3
MaxRows == 2
MantBits == 3
Tasks == {1, 2}

\* ------------------------------------------------------------------ inputs
\* Characters: u_c9 is the capital letter E-acute (U+00C9), u_e9 the small one (U+00E9).
Emails ==
    { <<"a", "@", "b", ".", "c">>,
      <<"A", "@", "b", ".", "c">>,
      <<"u_c9", "@", "b", ".", "c">>,
      <<"a", "@", "b">> }
\* Texts with and without the parts of an address: local part, "@", domain, dot.
Shapes ==
    { <<"a", "@", "b", ".", "c">>,
      <<"@", "b", ".", "c">>,
      <<"a", "@", ".">>,
      <<"a", "@", "b">>,
      <<"a", ".", "b">> }
Passwords == {"p", "q"}
Names == {"n"}
\* Dates are the day part DD of YYYY-MM-DD texts that share one prefix, digit by digit.
Dates == { <<0, 5>>, <<1, 0>> }
Amounts == {1, 8}
Categories == {"Food", "Travel"}
EmptyKey == << >>
UnknownKey == <<0>>
NoCategory == ""
NULL == << >>

\* ------------------------------------------------------------------ text
PyLowerChar(c) ==
    CASE c = "A" -> "a"
      [] c = "u_c9" -> "u_e9"
      [] OTHER -> c

\* str.lower(): Unicode-aware.
PyLower(s) == [i \in 1..Len(s) |-> PyLowerChar(s[i])]

SqlLowerChar(c) == IF c = "A" THEN "a" ELSE c

\* SQLite's built-in LOWER(): ASCII letters only.
SqlLower(s) == [i \in 1..Len(s) |-> SqlLowerChar(s[i])]

\* email.split("@")[-1]
LastPart(email) ==
    LET ats == {i \in 1..Len(email) : email[i] = "@"}
        last == IF ats = {} THEN 0 ELSE CHOOSE i \in ats : \A j \in ats : j <= i
    IN  SubSeq(email, last + 1, Len(email))

Contains(s, c) == \E i \in 1..Len(s) : s[i] = c

\* not ("@" not in email or "." not in email.split("@")[-1])
ValidEmailFormat(email) ==
    ~ (~ Contains(email, "@") \/ ~ Contains(LastPart(email), "."))

\* SQLite's comparison of TEXT values under the BINARY collation (memcmp, then length).
TextLeq(a, b) ==
    \/ a = b
    \/ \E i \in 1..Len(a) :
          /\ i <= Len(b)
          /\ \A j \in 1..(i - 1) : a[j] = b[j]
          /\ a[i] < b[i]
    \/ /\ Len(a) < Len(b)
       /\ \A j \in 1..Len(a) : a[j] = b[j]

_hash_password(password, salt) == <<password, salt>>

\* ------------------------------------------------------------------ REAL
RECURSIVE Pow2(_)
Pow2(n) == IF n = 0 THEN 1 ELSE 2 * Pow2(n - 1)

\* Round a non-negative number to the nearest binary floating-point value with a
\* MantBits-bit significand, ties to even (IEEE 754 round-to-nearest-even; the
\* REAL column and Python's float are doubles, whose significand is scaled down here).
RoundNat(n) ==
    LET e == CHOOSE k \in 0..16 :
                 /\ n \div Pow2(k) < Pow2(MantBits)
                 /\ \A j \in 0..(k - 1) : n \div Pow2(j) >= Pow2(MantBits)
        q == n \div Pow2(e)
        r == n % Pow2(e)
        up == 2 * r > Pow2(e) \/ (2 * r = Pow2(e) /\ q % 2 = 1)
    IN  (IF up THEN q + 1 ELSE q) * Pow2(e)

Real(x) == IF x < 0 THEN 0 - RoundNat(0 - x) ELSE RoundNat(x)

\* One floating-point addition: the exact sum, rounded.
RealAdd(a, b) == Real(a + b)

RECURSIVE FoldAdd(_, _)
FoldAdd(acc, s) == IF Len(s) = 0 THEN acc ELSE FoldAdd(RealAdd(acc, Head(s)), Tail(s))

\* Python's sum(iterable): starts from 0 and adds the items in order.
PySum(s) == FoldAdd(0, s)

\* ------------------------------------------------------------------ tables
UserRow(user_id, api_key, email, name, password_hash, salt, registered_at) ==
    [user_id |-> user_id, api_key |-> api_key, email |-> email, name |-> name,
     password_hash |-> password_hash, salt |-> salt,
     registered_at |-> registered_at, api_key_regen_at |-> NULL]

ExpenseRow(id, user_id, date, amount, category, subcategory, note) ==
    [id |-> id, user_id |-> user_id, date |-> date, amount |-> amount,
     category |-> category, subcategory |-> subcategory, note |-> note]

\* A users table whose email column lacks UNIQUE.
UsersViolationNoEmail(rows, row) ==
    IF \E r \in rows : r.user_id = row.user_id THEN "users.user_id"
    ELSE IF \E r \in rows : r.api_key = row.api_key THEN "users.api_key"
    ELSE "none"

\* PRIMARY KEY (user_id), UNIQUE (api_key), UNIQUE (email) of table users:
\* the constraint, if any, that inserting `row` into `rows` violates.
UsersViolation(rows, row) ==
    IF \E r \in rows : r.user_id = row.user_id THEN "users.user_id"
    ELSE IF \E r \in rows : r.api_key = row.api_key THEN "users.api_key"
    ELSE IF \E r \in rows : r.email = row.email THEN "users.email"
    ELSE "none"

\* SELECT ... FROM users WHERE LOWER(email) = LOWER(?)
UsersByEmail(rows, email) == {r \in rows : SqlLower(r.email) = SqlLower(email)}

\* SELECT user_id FROM users WHERE api_key = ?
UsersByKey(rows, api_key) == {r \in rows : r.api_key = api_key}

\* An UPDATE that sets the rotation time and leaves the key as it was.
UpdateTimeOnly(rows, user_id, new_key, now) ==
    {IF r.user_id = user_id THEN [r EXCEPT !.api_key_regen_at = now] ELSE r : r \in rows}

\* A rotation that adds the new key beside the old one.
UpdateKeepsOld(rows, user_id, new_key, now) ==
    rows \cup {[r EXCEPT !.api_key = new_key, !.api_key_regen_at = now] :
                  r \in {u \in rows : u.user_id = user_id}}

\* An UPDATE without its WHERE clause.
UpdateEveryRow(rows, user_id, new_key, now) ==
    {[r EXCEPT !.api_key = new_key, !.api_key_regen_at = now] : r \in rows}

\* UPDATE users SET api_key = ?, api_key_regen_at = ? WHERE user_id = ?
UpdateKey(rows, user_id, new_key, now) ==
    {IF r.user_id = user_id
        THEN [r EXCEPT !.api_key = new_key, !.api_key_regen_at = now]
        ELSE r : r \in rows}

\* UNIQUE (api_key) checked by the UPDATE against the rows it does not change.
UpdateViolation(rows, user_id, new_key) ==
    \E r \in rows : r.user_id # user_id /\ r.api_key = new_key

\* INTEGER PRIMARY KEY without AUTOINCREMENT: one more than the largest rowid in the table.
NextRowIdOfTable(rows, sequence) ==
    LET ids == {r.id : r \in rows} \cup {0}
    IN  1 + (CHOOSE m \in ids : \A i \in ids : i <= m)

\* INTEGER PRIMARY KEY AUTOINCREMENT: one more than the largest rowid the table ever held.
NextRowId(rows, sequence) ==
    LET ids == {r.id : r \in rows} \cup {sequence}
    IN  1 + (CHOOSE m \in ids : \A i \in ids : i <= m)

\* A range filter that forgets the user_id condition.
BetweenAnyUser(rows, user_id, start_date, end_date) ==
    {r \in rows : TextLeq(start_date, r.date) /\ TextLeq(r.date, end_date)}

\* A range filter that forgets the upper end of the range.
BetweenFrom(rows, user_id, start_date, end_date) ==
    {r \in rows : r.user_id = user_id /\ TextLeq(start_date, r.date)}

\* WHERE user_id = ? AND date BETWEEN ? AND ?
Between(rows, user_id, start_date, end_date) ==
    {r \in rows : /\ r.user_id = user_id
                  /\ TextLeq(start_date, r.date)
                  /\ TextLeq(r.date, end_date)}

\* ORDER BY date DESC, id ASC.
PrecedesIdAsc(r1, r2) ==
    \/ r1.date # r2.date /\ TextLeq(r2.date, r1.date)
    \/ r1.date = r2.date /\ r1.id < r2.id

\* ORDER BY date DESC, id DESC: r1 sorts strictly before r2.
Precedes(r1, r2) ==
    \/ r1.date # r2.date /\ TextLeq(r2.date, r1.date)
    \/ r1.date = r2.date /\ r1.id > r2.id

RECURSIVE OrderBy(_)
OrderBy(rows) ==
    IF rows = {} THEN << >>
    ELSE LET first == CHOOSE r \in rows : \A o \in rows : ~ Precedes(o, r)
         IN  <<first>> \o OrderBy(rows \ {first})

\* SELECT id, date, amount, category, subcategory, note
ListColumns(r) ==
    [id |-> r.id, date |-> r.date, amount |-> r.amount, category |-> r.category,
     subcategory |-> r.subcategory, note |-> r.note]

ListQuery(rows, user_id, start_date, end_date) ==
    LET sorted == OrderBy(Between(rows, user_id, start_date, end_date))
    IN  [i \in 1..Len(sorted) |-> ListColumns(sorted[i])]

\* The order in which the scan of idx_user_date(user_id, date) visits rows: date, then rowid.
RECURSIVE ScanOrder(_)
ScanOrder(rows) ==
    IF rows = {} THEN << >>
    ELSE LET first == CHOOSE r \in rows : \A o \in rows : ~ Precedes(r, o)
         IN  <<first>> \o ScanOrder(rows \ {first})

\* SUM(amount) of one group: a REAL accumulator, the rows added in scan order.
SqlSum(rows) ==
    LET scan == ScanOrder(rows)
    IN  FoldAdd(0, [i \in 1..Len(scan) |-> scan[i].amount])

\* WHERE ... [AND category = ?] GROUP BY category: one row per category.
SummaryGroups(rows, user_id, start_date, end_date, category) ==
    LET hit == {r \in Between(rows, user_id, start_date, end_date) :
                   category = NoCategory \/ r.category = category}
    IN  {[category |-> c,
          total_amount |-> SqlSum({r \in hit : r.category = c}),
          count |-> Cardinality({r \in hit : r.category = c})] :
            c \in {r.category : r \in hit}}

\* ORDER BY total_amount DESC: every order of the groups that the clause allows
\* (SQL leaves the order of equal totals open).
SummaryOrders(groups) ==
    {s \in [1..Cardinality(groups) -> groups] :
        /\ \A i, j \in DOMAIN s : i # j => s[i] # s[j]
        /\ \A i, j \in DOMAIN s : i < j => s[i].total_amount >= s[j].total_amount}

\* sum(item["total_amount"] for item in summary)
SummaryTotal(summary) == PySum([i \in 1..Len(summary) |-> summary[i].total_amount])

\* ------------------------------------------------------------------ tasks
NoValue == << >>

\* What a call hands back: a returned dict (status "success" / "error", or "" for the
\* dicts that carry no status key) or, with status "raised", an exception that left
\* the handler.
Result(status, message, value) == [status |-> status, message |-> message, value |-> value]

Idle ==
    [pc |-> "idle", op |-> "none",
     email |-> << >>, name |-> "", password |-> "",
     api_key |-> EmptyKey, date |-> << >>, amount |-> 0, category |-> NoCategory,
     start_date |-> << >>, end_date |-> << >>, expense_id |-> 0,
     user_id |-> 0, new_key |-> EmptyKey, salt |-> 0, now |-> NULL, id |-> 0,
     result |-> Result("", "", NoValue),
     \* history: no other call was in progress at any time during this one
     solo |-> TRUE,
     \* history: at the call, the addressed expense was present / already deleted
     present_at_call |-> FALSE, gone_at_call |-> FALSE,
     \* history: at the call, the account the presented api_key authenticated to (0: none)
     caller_at_call |-> 0,
     \* history: at the call, the account registered under the given email, compared
     \* ignoring letter case (0: none)
     account_at_call |-> 0,
     \* history: the api_key that the rotation's UPDATE replaced
     old_key |-> EmptyKey,
     \* history: what the table held under the addressed id when delete_expense ran
     \* its SELECT: "own", "foreign" (a row of another account), "absent" (no row)
     seen |-> "none"]

Active(t) == task[t].pc \notin {"idle", "done"}

\* The handler is over: its frame is dropped, the result and the arguments that
\* identify the call are kept.
Finish(rec, result) ==
    [rec EXCEPT !.pc = "done", !.result = result,
                !.name = "", !.date = << >>, !.amount = 0, !.salt = 0, !.now = NULL,
                !.category = IF rec.op = "add_expense" THEN NoCategory ELSE rec.category]

\* The account a key authenticates to in the committed table (0: none).
Lookup(rows, api_key) ==
    IF UsersByKey(rows, api_key) = {} THEN 0
    ELSE (CHOOSE r \in UsersByKey(rows, api_key) : TRUE).user_id

\* The account registered under an email, compared ignoring letter case (0: none).
AccountOf(rows, email) ==
    LET hit == {r \in rows : PyLower(r.email) = PyLower(email)}
    IN  IF hit = {} THEN 0 ELSE (CHOOSE r \in hit : TRUE).user_id

\* A tool call arrives and task t starts running its handler with record `rec`.
StartCall(t, rec) ==
    /\ calls < MaxCalls
    /\ ~ Active(t)
    /\ calls' = calls + 1
    /\ task' = [u \in Tasks |->
                  IF u = t
                    THEN [rec EXCEPT !.solo = \A o \in Tasks \ {t} : ~ Active(o),
                                     !.caller_at_call = Lookup(users, rec.api_key),
                                     !.account_at_call = AccountOf(users, rec.email),
                                     !.present_at_call =
                                         \E r \in expenses : r.id = rec.expense_id,
                                     !.gone_at_call = rec.expense_id \in DOMAIN deleted_by]
                  ELSE IF Active(u) THEN [task[u] EXCEPT !.solo = FALSE]
                  ELSE task[u]]

Step(t, rec) == task' = [task EXCEPT ![t] = rec]

\* datetime.now().isoformat()
Now == <<calls>>

\* api keys a caller can present: none, one that was never issued, any that was ever issued.
KeyInputs == {EmptyKey, UnknownKey} \cup DOMAIN key_owner

\* expense ids a caller can present: every id handed out so far and the next one.
IdInputs == 1..(seq + 1)

Init ==
    /\ users = {}
    /\ expenses = {}
    /\ seq = 0
    /\ rng = 0
    /\ wlock = 0
    /\ calls = 0
    /\ task = [t \in Tasks |-> Idle]
    /\ key_owner = << >>
    /\ retired = {}
    /\ added_by = << >>
    /\ deleted_by = << >>

\* ------------------------------------------------------------------ register_user
\* The call register_user(email, name, password), up to its first await.
RegisterCall(t, email, name, password) ==
    LET rec == [Idle EXCEPT !.op = "register_user", !.email = email,
                            !.name = name, !.password = password]
    IN  /\ StartCall(t, IF ~ ValidEmailFormat(email)
                           THEN Finish(rec, Result("error", "Invalid email format.", NoValue))
                           ELSE [rec EXCEPT !.pc = "reg_select"])
        /\ UNCHANGED <<users, expenses, seq, rng, wlock, key_owner, retired,
                       added_by, deleted_by>>

register_user(t) ==
    \E email \in Emails, name \in Names, password \in Passwords :
        RegisterCall(t, email, name, password)

\* The same call, the email drawn from the texts of every shape.
register_shape(t) ==
    \E email \in Shapes, name \in Names, password \in Passwords :
        RegisterCall(t, email, name, password)

\* The duplicate-email SELECT; when it finds nothing, the ids, the key, the salt and
\* the hash are drawn before the handler yields again at the INSERT.
reg_select(t) ==
    /\ task[t].pc = "reg_select"
    /\ IF UsersByEmail(users, task[t].email) # {}
         THEN /\ Step(t, Finish(task[t],
                    Result("error",
                           "This email is already registered. Use regenerate_api_key if you lost your key.",
                           NoValue)))
              /\ rng' = rng
         ELSE /\ Step(t, [task[t] EXCEPT !.pc = "reg_insert",
                                         !.user_id = rng + 1,
                                         !.new_key = <<rng + 2>>,
                                         !.salt = rng + 3,
                                         !.now = Now])
              /\ rng' = rng + 3
    /\ UNCHANGED <<users, expenses, seq, wlock, calls, key_owner, retired,
                   added_by, deleted_by>>

NewUser(rec) ==
    UserRow(rec.user_id, rec.new_key, PyLower(rec.email), rec.name,
            _hash_password(rec.password, rec.salt), rec.salt, rec.now)

\* INSERT INTO users: takes the writer lock, or fails on a constraint, which the
\* handler's except clause turns into a "Registration error" result.
reg_insert(t) ==
    /\ task[t].pc = "reg_insert"
    /\ wlock = 0
    /\ LET broken == UsersViolation(users, NewUser(task[t]))
       IN  IF broken # "none"
             THEN /\ Step(t, Finish(task[t],
                        Result("error", "Registration error: UNIQUE constraint failed", broken)))
                  /\ wlock' = wlock
             ELSE /\ Step(t, [task[t] EXCEPT !.pc = "reg_commit"])
                  /\ wlock' = t
    /\ UNCHANGED <<users, expenses, seq, rng, calls, key_owner, retired,
                   added_by, deleted_by>>

reg_commit(t) ==
    /\ task[t].pc = "reg_commit"
    /\ wlock = t
    /\ users' = users \cup {NewUser(task[t])}
    /\ wlock' = 0
    /\ key_owner' = (task[t].new_key :> task[t].user_id) @@ key_owner
    /\ Step(t, Finish(task[t],
           Result("success", "Registration successful! Save your API key.",
                  [api_key |-> task[t].new_key, user_id |-> task[t].user_id,
                   name |-> task[t].name, email |-> PyLower(task[t].email)])))
    /\ UNCHANGED <<expenses, seq, rng, calls, retired, added_by, deleted_by>>

\* ------------------------------------------------------------------ regenerate_api_key
regenerate_api_key(t) ==
    \E email \in Emails, password \in Passwords :
        /\ StartCall(t, [Idle EXCEPT !.op = "regenerate_api_key", !.pc = "regen_select",
                                     !.email = email, !.password = password])
        /\ UNCHANGED <<users, expenses, seq, rng, wlock, key_owner, retired,
                       added_by, deleted_by>>

regen_select(t) ==
    /\ task[t].pc = "regen_select"
    /\ IF UsersByEmail(users, task[t].email) = {}
         THEN /\ Step(t, Finish(task[t], Result("error", "Email not found.", NoValue)))
              /\ rng' = rng
         ELSE \E row \in UsersByEmail(users, task[t].email) :
                IF _hash_password(task[t].password, row.salt) # row.password_hash
                  THEN /\ Step(t, Finish(task[t],
                             Result("error", "Incorrect password.", NoValue)))
                       /\ rng' = rng
                  ELSE /\ Step(t, [task[t] EXCEPT !.pc = "regen_update",
                                                  !.user_id = row.user_id,
                                                  !.new_key = <<rng + 1>>,
                                                  !.now = Now])
                       /\ rng' = rng + 1
    /\ UNCHANGED <<users, expenses, seq, wlock, calls, key_owner, retired,
                   added_by, deleted_by>>

regen_update(t) ==
    /\ task[t].pc = "regen_update"
    /\ wlock = 0
    /\ IF UpdateViolation(users, task[t].user_id, task[t].new_key)
         THEN /\ Step(t, Finish(task[t],
                    Result("error", "Error: UNIQUE constraint failed", "users.api_key")))
              /\ wlock' = wlock
         ELSE /\ Step(t, [task[t] EXCEPT !.pc = "regen_commit"])
              /\ wlock' = t
    /\ UNCHANGED <<users, expenses, seq, rng, calls, key_owner, retired,
                   added_by, deleted_by>>

regen_commit(t) ==
    LET replaced == {r.api_key : r \in {u \in users : u.user_id = task[t].user_id}}
                        \ {task[t].new_key}
    IN  /\ task[t].pc = "regen_commit"
        /\ wlock = t
        /\ users' = UpdateKey(users, task[t].user_id, task[t].new_key, task[t].now)
        /\ wlock' = 0
        /\ key_owner' = (task[t].new_key :> task[t].user_id) @@ key_owner
        /\ retired' = retired \cup replaced
        /\ Step(t, Finish([task[t] EXCEPT !.old_key =
                                IF replaced = {} THEN EmptyKey
                                ELSE CHOOSE k \in replaced : TRUE],
               Result("success", "New API key generated.",
                      [api_key |-> task[t].new_key, user_id |-> task[t].user_id])))
        /\ UNCHANGED <<expenses, seq, rng, calls, added_by, deleted_by>>

\* ------------------------------------------------------------------ _authenticate
\* `if not api_key: raise ValueError(...)` runs before the handler first yields, so it
\* is part of the call's first step; the ValueError leaves the handler, which awaits
\* _authenticate outside its try block.
\* An _authenticate without the `if not api_key` test: every key goes to the SELECT.
EnterUnchecked(rec, first) == [rec EXCEPT !.pc = first]

Enter(rec, first) ==
    IF rec.api_key = EmptyKey
      THEN Finish(rec, Result("raised", "API key is required", "ValueError"))
      ELSE [rec EXCEPT !.pc = first]

\* SELECT user_id FROM users WHERE api_key = ?, then the handler's next await.
Authenticated(t, next) ==
    IF UsersByKey(users, task[t].api_key) = {}
      THEN Step(t, Finish(task[t], Result("raised", "Invalid API key", "ValueError")))
      ELSE \E row \in UsersByKey(users, task[t].api_key) :
              Step(t, [task[t] EXCEPT !.pc = next, !.user_id = row.user_id])

\* ------------------------------------------------------------------ add_expense
add_expense(t) ==
    \E api_key \in KeyInputs, date \in Dates, amount \in Amounts, category \in Categories :
        /\ StartCall(t, Enter([Idle EXCEPT !.op = "add_expense", !.api_key = api_key,
                                           !.date = date, !.amount = amount,
                                           !.category = category], "add_auth"))
        /\ UNCHANGED <<users, expenses, seq, rng, wlock, key_owner, retired,
                       added_by, deleted_by>>

add_auth(t) ==
    /\ task[t].pc = "add_auth"
    /\ Authenticated(t, "add_insert")
    /\ UNCHANGED <<users, expenses, seq, rng, wlock, calls, key_owner, retired,
                   added_by, deleted_by>>

\* INSERT INTO expenses: takes the writer lock; cur.lastrowid is the new rowid.
add_insert(t) ==
    /\ task[t].pc = "add_insert"
    /\ wlock = 0
    /\ wlock' = t
    /\ Step(t, [task[t] EXCEPT !.pc = "add_commit", !.id = NextRowId(expenses, seq)])
    /\ UNCHANGED <<users, expenses, seq, rng, calls, key_owner, retired,
                   added_by, deleted_by>>

add_commit(t) ==
    /\ task[t].pc = "add_commit"
    /\ wlock = t
    /\ expenses' = expenses \cup
           {ExpenseRow(task[t].id, task[t].user_id, task[t].date, task[t].amount,
                       task[t].category, "", "")}
    /\ seq' = IF task[t].id > seq THEN task[t].id ELSE seq
    /\ wlock' = 0
    /\ added_by' = (task[t].id :> task[t].api_key) @@ added_by
    /\ Step(t, Finish(task[t], Result("success", "Expense added.", task[t].id)))
    /\ UNCHANGED <<users, rng, calls, key_owner, retired, deleted_by>>

\* ------------------------------------------------------------------ list_expenses
list_expenses(t) ==
    \E api_key \in KeyInputs, start_date \in Dates, end_date \in Dates :
        /\ StartCall(t, Enter([Idle EXCEPT !.op = "list_expenses", !.api_key = api_key,
                                           !.start_date = start_date,
                                           !.end_date = end_date], "list_auth"))
        /\ UNCHANGED <<users, expenses, seq, rng, wlock, key_owner, retired,
                       added_by, deleted_by>>

list_auth(t) ==
    /\ task[t].pc = "list_auth"
    /\ Authenticated(t, "list_select")
    /\ UNCHANGED <<users, expenses, seq, rng, wlock, calls, key_owner, retired,
                   added_by, deleted_by>>

list_select(t) ==
    /\ task[t].pc = "list_select"
    /\ LET rows == ListQuery(expenses, task[t].user_id, task[t].start_date, task[t].end_date)
       IN  Step(t, Finish(task[t],
               Result("", "", [count |-> Len(rows), expenses |-> rows])))
    /\ UNCHANGED <<users, expenses, seq, rng, wlock, calls, key_owner, retired,
                   added_by, deleted_by>>

\* ------------------------------------------------------------------ summarize
summarize(t) ==
    \E api_key \in KeyInputs, start_date \in Dates, end_date \in Dates,
       category \in Categories \cup {NoCategory} :
        /\ StartCall(t, Enter([Idle EXCEPT !.op = "summarize", !.api_key = api_key,
                                           !.start_date = start_date,
                                           !.end_date = end_date,
                                           !.category = category], "sum_auth"))
        /\ UNCHANGED <<users, expenses, seq, rng, wlock, key_owner, retired,
                       added_by, deleted_by>>

sum_auth(t) ==
    /\ task[t].pc = "sum_auth"
    /\ Authenticated(t, "sum_select")
    /\ UNCHANGED <<users, expenses, seq, rng, wlock, calls, key_owner, retired,
                   added_by, deleted_by>>

sum_select(t) ==
    /\ task[t].pc = "sum_select"
    /\ \E summary \in SummaryOrders(SummaryGroups(expenses, task[t].user_id,
                          task[t].start_date, task[t].end_date, task[t].category)) :
          Step(t, Finish(task[t],
              Result("", "", [total_amount |-> SummaryTotal(summary),
                              summary |-> summary])))
    /\ UNCHANGED <<users, expenses, seq, rng, wlock, calls, key_owner, retired,
                   added_by, deleted_by>>

\* ------------------------------------------------------------------ delete_expense
delete_expense(t) ==
    \E api_key \in KeyInputs, expense_id \in IdInputs :
        /\ StartCall(t, Enter([Idle EXCEPT !.op = "delete_expense", !.api_key = api_key,
                                           !.expense_id = expense_id], "del_auth"))
        /\ UNCHANGED <<users, expenses, seq, rng, wlock, key_owner, retired,
                       added_by, deleted_by>>

del_auth(t) ==
    /\ task[t].pc = "del_auth"
    /\ Authenticated(t, "del_select")
    /\ UNCHANGED <<users, expenses, seq, rng, wlock, calls, key_owner, retired,
                   added_by, deleted_by>>

\* A condition that forgets the user_id.
AnyExpense(rows, expense_id, user_id) == {r \in rows : r.id = expense_id}

\* WHERE id = ? AND user_id = ?
OwnExpense(rows, expense_id, user_id) ==
    {r \in rows : r.id = expense_id /\ r.user_id = user_id}

\* A DELETE that removes nothing.
DeleteNothing(rows, expense_id, user_id) == rows

\* DELETE FROM expenses WHERE id = ? AND user_id = ?
DeleteRows(rows, expense_id, user_id) == rows \ OwnExpense(rows, expense_id, user_id)

\* SELECT 1 FROM expenses WHERE id = ? AND user_id = ?
del_select(t) ==
    /\ task[t].pc = "del_select"
    /\ LET seen == IF \A r \in expenses : r.id # task[t].expense_id THEN "absent"
                   ELSE IF \E r \in expenses : /\ r.id = task[t].expense_id
                                                /\ r.user_id = task[t].user_id
                          THEN "own"
                   ELSE "foreign"
           rec == [task[t] EXCEPT !.seen = seen]
       IN  IF OwnExpense(expenses, task[t].expense_id, task[t].user_id) = {}
             THEN Step(t, Finish(rec,
                      Result("error", "Expense not found or not yours.", NoValue)))
             ELSE Step(t, [rec EXCEPT !.pc = "del_delete"])
    /\ UNCHANGED <<users, expenses, seq, rng, wlock, calls, key_owner, retired,
                   added_by, deleted_by>>

\* DELETE FROM expenses WHERE id = ? AND user_id = ?: takes the writer lock.
del_delete(t) ==
    /\ task[t].pc = "del_delete"
    /\ wlock = 0
    /\ wlock' = t
    /\ Step(t, [task[t] EXCEPT !.pc = "del_commit"])
    /\ UNCHANGED <<users, expenses, seq, rng, calls, key_owner, retired,
                   added_by, deleted_by>>

del_commit(t) ==
    LET hit == OwnExpense(expenses, task[t].expense_id, task[t].user_id)
    IN  /\ task[t].pc = "del_commit"
        /\ wlock = t
        /\ expenses' = DeleteRows(expenses, task[t].expense_id, task[t].user_id)
        /\ wlock' = 0
        /\ deleted_by' = IF hit = {} THEN deleted_by
                         ELSE (task[t].expense_id :> task[t].api_key) @@ deleted_by
        /\ Step(t, Finish(task[t], Result("success", "Expense deleted.", task[t].expense_id)))
        /\ UNCHANGED <<users, seq, rng, calls, key_owner, retired, added_by>>

\* ------------------------------------------------------------------ specification
Next ==
    \E t \in Tasks :
        \/ register_user(t) \/ reg_select(t) \/ reg_insert(t) \/ reg_commit(t)
        \/ regenerate_api_key(t) \/ regen_select(t) \/ regen_update(t) \/ regen_commit(t)
        \/ add_expense(t) \/ add_auth(t) \/ add_insert(t) \/ add_commit(t)
        \/ list_expenses(t) \/ list_auth(t) \/ list_select(t)
        \/ summarize(t) \/ sum_auth(t) \/ sum_select(t)
        \/ delete_expense(t) \/ del_auth(t) \/ del_select(t) \/ del_delete(t)
        \/ del_commit(t)

Spec == Init /\ [][Next]_vars

\* ------------------------------------------------------------------ other starting points
\* The database file outlives the process (CREATE TABLE IF NOT EXISTS): a run can start
\* from rows that earlier calls committed.  Two accounts, as register_user leaves them.
Alice == UserRow(1, <<2>>, PyLower(<<"a", "@", "b", ".", "c">>), "n",
                 _hash_password("p", 3), 3, <<1>>)
Bob == UserRow(4, <<5>>, PyLower(<<"u_c9", "@", "b", ".", "c">>), "n",
               _hash_password("p", 6), 6, <<2>>)

InitTwoAccounts ==
    /\ users = {Alice, Bob}
    /\ rng = 6
    /\ key_owner = (Alice.api_key :> Alice.user_id) @@ (Bob.api_key :> Bob.user_id)
    /\ retired = {}
    /\ wlock = 0
    /\ task = [t \in Tasks |-> Idle]

\* Accounts only: registrations, rotations, and delete_expense as the caller of _authenticate.
NextAccounts ==
    \E t \in Tasks :
        \/ register_user(t) \/ reg_select(t) \/ reg_insert(t) \/ reg_commit(t)
        \/ regenerate_api_key(t) \/ regen_select(t) \/ regen_update(t) \/ regen_commit(t)
        \/ delete_expense(t) \/ del_auth(t) \/ del_select(t)

SpecAccounts == Init /\ [][NextAccounts]_vars

\* Registrations only, of emails of every shape.
NextShapes ==
    \E t \in Tasks :
        \/ register_shape(t) \/ reg_select(t) \/ reg_insert(t) \/ reg_commit(t)

SpecShapes == Init /\ [][NextShapes]_vars

\* Ledger only: the two accounts, and one expense that Alice's add_expense, the first
\* call of this run, has just created.
InitLedger ==
    /\ InitTwoAccounts
    /\ expenses = {ExpenseRow(1, Alice.user_id, <<0, 5>>, 8, "Food", "", "")}
    /\ seq = 1
    /\ calls = 1
    /\ added_by = (1 :> Alice.api_key)
    /\ deleted_by = << >>

NextLedger ==
    \E t \in Tasks :
        \/ add_expense(t) \/ add_auth(t) \/ add_insert(t) \/ add_commit(t)
        \/ list_expenses(t) \/ list_auth(t) \/ list_select(t)
        \/ delete_expense(t) \/ del_auth(t) \/ del_select(t) \/ del_delete(t)
        \/ del_commit(t)

SpecLedger == InitLedger /\ [][NextLedger]_vars

\* Rotations beside writes to the ledger, from the same starting point.
NextRotation ==
    \E t \in Tasks :
        \/ regenerate_api_key(t) \/ regen_select(t) \/ regen_update(t) \/ regen_commit(t)
        \/ add_expense(t) \/ add_auth(t) \/ add_insert(t) \/ add_commit(t)
        \/ delete_expense(t) \/ del_auth(t) \/ del_select(t) \/ del_delete(t)
        \/ del_commit(t)

SpecRotation == InitLedger /\ [][NextRotation]_vars

\* Queries only: the two accounts and up to MaxRows expenses, as add_expense calls of
\* either account leave them; one call is left to make.
RowsUpTo(n) ==
    UNION {[1..k -> {Alice.user_id, Bob.user_id} \X Dates \X Amounts \X Categories] :
              k \in 0..n}

InitRows(n) ==
    /\ InitTwoAccounts
    /\ \E f \in RowsUpTo(n) :
          /\ expenses = {ExpenseRow(i, f[i][1], f[i][2], f[i][3], f[i][4], "", "") :
                            i \in DOMAIN f}
          /\ seq = Len(f)
          /\ added_by = [i \in DOMAIN f |->
                            IF f[i][1] = Alice.user_id THEN Alice.api_key ELSE Bob.api_key]
    /\ calls = MaxCalls - 1
    /\ deleted_by = << >>

NextQuery ==
    \/ list_expenses(1) \/ list_auth(1) \/ list_select(1)
    \/ summarize(1) \/ sum_auth(1) \/ sum_select(1)

InitQuery == InitRows(MaxRows)

SpecQuery == InitQuery /\ [][NextQuery]_vars

\* The same with one more row, and summarize alone.
InitSums == InitRows(MaxRows + 1)

NextSums == summarize(1) \/ sum_auth(1) \/ sum_select(1)

SpecSums == InitSums /\ [][NextSums]_vars

\* ------------------------------------------------------------------ vocabulary of the claims
Done(t) == task[t].pc = "done"

LedgerOps == {"add_expense", "list_expenses", "summarize", "delete_expense"}

Succeeded(t) == task[t].result.status = "success"

\* The error kinds of the specification, read off the messages the handlers return.
Returned(t, message) ==
    task[t].result.status = "error" /\ task[t].result.message = message

DuplicateEmail(t) ==
    Returned(t, "This email is already registered. Use regenerate_api_key if you lost your key.")

BadCredentials(t) == Returned(t, "Incorrect password.")

NotFoundOrNotOwned(t) == Returned(t, "Expense not found or not yours.")

StorageFailure(t) == Returned(t, "Registration error: UNIQUE constraint failed")

Raised(t) == task[t].result.status = "raised"

AllKeys == {EmptyKey} \cup {<<n>> : n \in 0..rng}

\* The account a call acts for: the one its api_key was issued to (0: none).
CallerOf(t) ==
    IF task[t].api_key \in DOMAIN key_owner THEN key_owner[task[t].api_key] ELSE 0

\* The account whose add_expense created expense id (0: none).
CreatorOf(id) ==
    IF id \in DOMAIN added_by /\ added_by[id] \in DOMAIN key_owner
      THEN key_owner[added_by[id]] ELSE 0

\* ------------------------------------------------------------------ C1
\* C1: when the only two calls made so far are register_user calls whose emails are
\* equal ignoring letter case, and both have returned, exactly one has returned
\* success and the other the "already registered" (DuplicateEmail) error.
C1_OneSuccessOneDuplicate ==
    \A t1, t2 \in Tasks :
        ( /\ t1 # t2
          /\ calls = 2
          /\ Done(t1) /\ Done(t2)
          /\ task[t1].op = "register_user" /\ task[t2].op = "register_user"
          /\ ValidEmailFormat(task[t1].email)
          /\ PyLower(task[t1].email) = PyLower(task[t2].email) )
        => \/ Succeeded(t1) /\ DuplicateEmail(t2)
           \/ Succeeded(t2) /\ DuplicateEmail(t1)

\* ------------------------------------------------------------------ C2
\* C2: list_expenses returns only expenses created under the caller's own account; a
\* delete_expense that addresses an expense created by another account returns
\* "not found or not yours"; and an expense is only ever removed by a delete_expense
\* of the account that created it, so it stays in the ledger otherwise.
C2_TenantIsolation ==
    /\ \A t \in Tasks :
          (Done(t) /\ task[t].op = "list_expenses" /\ ~ Raised(t))
          => \A i \in 1..Len(task[t].result.value.expenses) :
                CreatorOf(task[t].result.value.expenses[i].id) = CallerOf(t)
    /\ \A t \in Tasks :
          ( /\ Done(t) /\ task[t].op = "delete_expense"
            /\ task[t].caller_at_call # 0
            /\ CreatorOf(task[t].expense_id) # 0
            /\ CreatorOf(task[t].expense_id) # CallerOf(t) )
          => \/ NotFoundOrNotOwned(t)
             \/ Raised(t) /\ task[t].api_key \in retired
    /\ \A id \in DOMAIN deleted_by :
          id \in DOMAIN added_by /\ key_owner[deleted_by[id]] = CreatorOf(id)
    /\ \A id \in DOMAIN added_by \ DOMAIN deleted_by :
          \E r \in expenses : r.id = id /\ r.user_id = CreatorOf(id)

\* Bob has listed a range in which he has an expense and Alice has one too, and Bob
\* has been refused the deletion of Alice's expense, which is still there.
C2_Witness ==
    \E t1, t2 \in Tasks :
        /\ Done(t1) /\ task[t1].op = "delete_expense"
        /\ task[t1].api_key = Bob.api_key
        /\ CreatorOf(task[t1].expense_id) = Alice.user_id
        /\ NotFoundOrNotOwned(t1)
        /\ \E r \in expenses : r.id = task[t1].expense_id
        /\ Done(t2) /\ task[t2].op = "list_expenses"
        /\ task[t2].api_key = Bob.api_key
        /\ task[t2].result.value.count = 0
        /\ \E r \in expenses :
              /\ r.user_id = Alice.user_id
              /\ TextLeq(task[t2].start_date, r.date)
              /\ TextLeq(r.date, task[t2].end_date)

\* ------------------------------------------------------------------ C3
\* C3: the api_key a successful register_user returned authenticates to the account
\* it returned, until a rotation replaces it; once a regenerate_api_key has
\* succeeded, the key it replaced authenticates to nobody and the key it returned
\* authenticates to the same account, until a later rotation replaces it in turn.
C3_KeyAuthenticates ==
    \A t \in Tasks :
        /\ (Done(t) /\ task[t].op = "register_user" /\ Succeeded(t))
           => ( task[t].result.value.api_key \notin retired
                => Lookup(users, task[t].result.value.api_key)
                      = task[t].result.value.user_id )
        /\ (Done(t) /\ task[t].op = "regenerate_api_key" /\ Succeeded(t))
           => /\ task[t].old_key # EmptyKey
              /\ Lookup(users, task[t].old_key) = 0
              /\ task[t].result.value.user_id = AccountOf(users, task[t].email)
              /\ ( task[t].result.value.api_key \notin retired
                   => Lookup(users, task[t].result.value.api_key)
                         = task[t].result.value.user_id )

\* A rotation has succeeded for an account whose registration returned the key that
\* the rotation replaced.
C3_Witness ==
    \E t1, t2 \in Tasks :
        /\ Done(t1) /\ task[t1].op = "register_user" /\ Succeeded(t1)
        /\ Done(t2) /\ task[t2].op = "regenerate_api_key" /\ Succeeded(t2)
        /\ task[t2].old_key = task[t1].result.value.api_key
        /\ Lookup(users, task[t2].result.value.api_key) = task[t1].result.value.user_id

\* ------------------------------------------------------------------ C4
\* C4: in every state each account row is authenticated to by exactly one api_key,
\* and no key that a rotation replaced authenticates to any account.
C4_OneLiveKey ==
    /\ \A r \in users :
          Cardinality({k \in AllKeys : Lookup(users, k) = r.user_id}) = 1
    /\ \A r1, r2 \in users : r1.user_id = r2.user_id => r1 = r2
    /\ \A k \in retired : Lookup(users, k) = 0

\* Two overlapping rotations of one account have both committed.
C4_Witness ==
    \E t1, t2 \in Tasks :
        /\ t1 # t2
        /\ Done(t1) /\ task[t1].op = "regenerate_api_key" /\ Succeeded(t1)
        /\ Done(t2) /\ task[t2].op = "regenerate_api_key" /\ Succeeded(t2)
        /\ task[t1].user_id = task[t2].user_id
        /\ ~ task[t1].solo /\ ~ task[t2].solo
        /\ Cardinality(retired) = 2

\* ------------------------------------------------------------------ C5
\* C5: in every state no two account rows share an email, compared ignoring letter
\* case, and no two account rows share an api_key.
C5_UniqueEmailAndKey ==
    \A r1, r2 \in users :
        r1 # r2 => /\ PyLower(r1.email) # PyLower(r2.email)
                   /\ r1.api_key # r2.api_key

\* Two overlapping registrations of one email: both passed the duplicate check, one
\* committed, the other was stopped by the UNIQUE constraint of the table.
C5_Witness ==
    \E t1, t2 \in Tasks :
        /\ Done(t1) /\ task[t1].op = "register_user" /\ Succeeded(t1)
        /\ Done(t2) /\ task[t2].op = "register_user" /\ StorageFailure(t2)
        /\ ~ task[t1].solo /\ ~ task[t2].solo
        /\ PyLower(task[t1].email) = PyLower(task[t2].email)
        /\ Cardinality(users) = 1

\* ------------------------------------------------------------------ C6
\* Exact sum of the amounts of a sequence of rows.
RECURSIVE ExactSum(_)
ExactSum(rows) == IF Len(rows) = 0 THEN 0 ELSE Head(rows).amount + ExactSum(Tail(rows))

\* C6: the total that summarize returns without a category filter is the sum of the
\* amounts of the rows list_expenses returns for the same account and range (the
\* exact sum, or the one a caller gets by adding the listed amounts in order), and
\* it is the sum of the per-category sums of the breakdown.
C6_TotalIsSumOfListed ==
    \A t \in Tasks :
        ( /\ Done(t) /\ task[t].op = "summarize" /\ ~ Raised(t)
          /\ task[t].category = NoCategory )
        => LET listed == ListQuery(expenses, CallerOf(t), task[t].start_date,
                                   task[t].end_date)
               total == task[t].result.value.total_amount
               parts == task[t].result.value.summary
           IN  /\ \/ total = ExactSum(listed)
                  \/ total = PySum([i \in 1..Len(listed) |-> listed[i].amount])
               /\ total = PySum([i \in 1..Len(parts) |-> parts[i].total_amount])

\* ------------------------------------------------------------------ C7
\* C7: a step of a ledger call whose api_key authenticated to no account when the
\* call was made leaves the expenses table as it was, and when the call ends it
\* ends with a returned error result, not with an exception leaving the handler.
C7_UnauthenticatedIsReturned ==
    [][ \A t \in Tasks :
          ( /\ task'[t] # task[t]
            /\ task'[t].op \in LedgerOps
            /\ task'[t].caller_at_call = 0 )
          => /\ expenses' = expenses
             /\ task'[t].pc = "done" => task'[t].result.status = "error" ]_vars

\* ------------------------------------------------------------------ C8
\* The password is not the one the account was registered with.
WrongPassword(user_id, password) ==
    \E r \in users :
        r.user_id = user_id /\ _hash_password(password, r.salt) # r.password_hash

\* C8: a regenerate_api_key call made with the email of a registered account and a
\* wrong password returns the "Incorrect password" (BadCredentials) error and has
\* replaced no key.
C8_WrongPasswordRejected ==
    \A t \in Tasks :
        ( /\ Done(t) /\ task[t].op = "regenerate_api_key"
          /\ task[t].account_at_call # 0
          /\ WrongPassword(task[t].account_at_call, task[t].password) )
        => BadCredentials(t) /\ task[t].old_key = EmptyKey

\* ------------------------------------------------------------------ C9
\* C9: a delete_expense that its owner makes, with no other call in progress, for an
\* expense that is present returns success and the expense is gone; a delete_expense
\* by the same account made after that deletion committed returns "not found or not
\* yours"; and a delete_expense that has returned success leaves no row with that id.
C9_DeleteOnce ==
    \A t \in Tasks :
        (Done(t) /\ task[t].op = "delete_expense")
        => /\ ( /\ task[t].solo /\ task[t].present_at_call
                /\ task[t].caller_at_call # 0
                /\ task[t].caller_at_call = CreatorOf(task[t].expense_id) )
              => Succeeded(t)
           /\ Succeeded(t) => ~ \E r \in expenses : r.id = task[t].expense_id
           /\ ( /\ task[t].gone_at_call
                /\ task[t].caller_at_call # 0
                /\ task[t].caller_at_call = key_owner[deleted_by[task[t].expense_id]] )
              => \/ NotFoundOrNotOwned(t)
                 \/ Raised(t) /\ task[t].api_key \in retired

\* The owner has deleted an expense, and the same owner's second delete of the same
\* id, made after the first had returned, was refused.
C9_Witness ==
    \E t1, t2 \in Tasks :
        /\ t1 # t2
        /\ Done(t1) /\ task[t1].op = "delete_expense" /\ Succeeded(t1)
        /\ task[t1].solo /\ task[t1].present_at_call
        /\ Done(t2) /\ task[t2].op = "delete_expense" /\ NotFoundOrNotOwned(t2)
        /\ task[t2].gone_at_call
        /\ task[t2].expense_id = task[t1].expense_id
        /\ task[t2].api_key = task[t1].api_key

\* ------------------------------------------------------------------ C10
\* The calendar day a date text stands for.
DayOf(date) == 10 * date[1] + date[2]

\* C10: list_expenses returns, each once and with the stored columns, exactly the
\* caller's expenses whose day lies between the days of start_date and end_date,
\* both included, later days first and, within a day, larger ids first; count is
\* the number of rows returned.
C10_ListIsRangeSorted ==
    \A t \in Tasks :
        (Done(t) /\ task[t].op = "list_expenses" /\ ~ Raised(t))
        => LET rows == task[t].result.value.expenses
               wanted == {r \in expenses :
                             /\ r.user_id = CallerOf(t)
                             /\ DayOf(task[t].start_date) <= DayOf(r.date)
                             /\ DayOf(r.date) <= DayOf(task[t].end_date)}
           IN  /\ {rows[i] : i \in 1..Len(rows)} = {ListColumns(r) : r \in wanted}
               /\ \A i, j \in 1..Len(rows) :
                     i < j => \/ DayOf(rows[i].date) > DayOf(rows[j].date)
                              \/ /\ DayOf(rows[i].date) = DayOf(rows[j].date)
                                 /\ rows[i].id > rows[j].id
               /\ task[t].result.value.count = Len(rows)

\* A listing of two expenses of one day, the day being both ends of the range.
C10_Witness ==
    \E t \in Tasks :
        /\ Done(t) /\ task[t].op = "list_expenses" /\ ~ Raised(t)
        /\ task[t].result.value.count = 2
        /\ task[t].result.value.expenses[1].date = task[t].result.value.expenses[2].date
        /\ task[t].start_date = task[t].end_date
        /\ task[t].start_date = task[t].result.value.expenses[1].date

\* ------------------------------------------------------------------ C11
\* C11: a list_expenses call whose api_key authenticated and whose start_date is a
\* later day than its end_date returns the dict without an error status, with
\* count 0 and an empty list of expenses, whatever expenses the account holds.
C11_ReversedRangeIsEmpty ==
    \A t \in Tasks :
        ( /\ Done(t) /\ task[t].op = "list_expenses"
          /\ task[t].caller_at_call # 0
          /\ DayOf(task[t].start_date) > DayOf(task[t].end_date) )
        => /\ ~ Raised(t)
           /\ task[t].result.status # "error"
           /\ task[t].result.value.count = 0
           /\ task[t].result.value.expenses = << >>

\* A reversed range has been listed by an account that holds an expense on each of
\* the two days that are the ends of the range.
C11_Witness ==
    \E t \in Tasks :
        /\ Done(t) /\ task[t].op = "list_expenses" /\ ~ Raised(t)
        /\ DayOf(task[t].start_date) > DayOf(task[t].end_date)
        /\ task[t].result.value.count = 0
        /\ \E r1, r2 \in expenses :
              /\ r1.user_id = CallerOf(t) /\ r1.date = task[t].start_date
              /\ r2.user_id = CallerOf(t) /\ r2.date = task[t].end_date

\* ------------------------------------------------------------------ C12
\* C12: of two delete_expense calls that presented the same api_key, one that
\* addressed an id under which another account held an expense and one that
\* addressed an id under which no expense existed, the results are identical.
C12_ForeignLooksAbsent ==
    \A t1, t2 \in Tasks :
        ( /\ Done(t1) /\ task[t1].op = "delete_expense" /\ task[t1].seen = "foreign"
          /\ Done(t2) /\ task[t2].op = "delete_expense" /\ task[t2].seen = "absent"
          /\ task[t1].api_key = task[t2].api_key )
        => task[t1].result = task[t2].result

\* Bob has addressed Alice's expense, which is still there, and an id that no
\* expense carries.
C12_Witness ==
    \E t1, t2 \in Tasks :
        /\ Done(t1) /\ task[t1].op = "delete_expense" /\ task[t1].seen = "foreign"
        /\ Done(t2) /\ task[t2].op = "delete_expense" /\ task[t2].seen = "absent"
        /\ task[t1].api_key = Bob.api_key /\ task[t2].api_key = Bob.api_key
        /\ \E r \in expenses : r.id = task[t1].expense_id /\ r.user_id = Alice.user_id
        /\ \A r \in expenses : r.id # task[t2].expense_id

\* ------------------------------------------------------------------ C13
\* The positions at which a handler is inside _authenticate, about to run its SELECT.
AuthPositions == {"add_auth", "list_auth", "sum_auth", "del_auth"}

\* C13: a ledger call that presents the empty api_key never reaches the SELECT of
\* _authenticate and ends with "API key is required"; a ledger call that presents
\* a non-empty api_key that no account carried when the call was made ends with
\* the different reason "Invalid API key"; _authenticate fails with no other reason.
C13_TwoReasons ==
    \A t \in Tasks :
        task[t].op \in LedgerOps
        => /\ task[t].api_key = EmptyKey
              => /\ task[t].pc \notin AuthPositions
                 /\ Done(t) => Raised(t) /\ task[t].result.message = "API key is required"
           /\ (task[t].api_key # EmptyKey /\ task[t].caller_at_call = 0 /\ Done(t))
              => Raised(t) /\ task[t].result.message = "Invalid API key"
           /\ (Done(t) /\ Raised(t))
              => \/ task[t].api_key = EmptyKey
                    /\ task[t].result.message = "API key is required"
                 \/ task[t].api_key # EmptyKey
                    /\ task[t].result.message = "Invalid API key"

\* One call has presented the empty key, another a key that was never issued.
C13_Witness ==
    \E t1, t2 \in Tasks :
        /\ Done(t1) /\ task[t1].op \in LedgerOps /\ task[t1].api_key = EmptyKey
        /\ task[t1].result.message = "API key is required"
        /\ Done(t2) /\ task[t2].op \in LedgerOps /\ task[t2].api_key = UnknownKey
        /\ task[t2].result.message = "Invalid API key"
        /\ users # {}

\* ------------------------------------------------------------------ C14
\* C14: of two delete_expense calls that the owning account made for the same id
\* while the expense was present, at most one has returned success, and when both
\* have returned the other has returned "not found or not yours".
C14_OneDeleteSucceeds ==
    \A t1, t2 \in Tasks :
        ( /\ t1 # t2
          /\ Done(t1) /\ task[t1].op = "delete_expense" /\ task[t1].present_at_call
          /\ Done(t2) /\ task[t2].op = "delete_expense" /\ task[t2].present_at_call
          /\ task[t1].expense_id = task[t2].expense_id
          /\ task[t1].caller_at_call = CreatorOf(task[t1].expense_id)
          /\ task[t2].caller_at_call = CreatorOf(task[t2].expense_id) )
        => \/ Succeeded(t1) /\ NotFoundOrNotOwned(t2)
           \/ Succeeded(t2) /\ NotFoundOrNotOwned(t1)

\* ------------------------------------------------------------------ C15
\* C15: no step inserts an expense for an add_expense call, or removes one for a
\* delete_expense call, whose api_key a committed rotation has already replaced.
C15_NoWriteWithReplacedKey ==
    [][ /\ \A id \in DOMAIN added_by' \ DOMAIN added_by : added_by'[id] \notin retired
        /\ \A id \in DOMAIN deleted_by' \ DOMAIN deleted_by :
              deleted_by'[id] \notin retired ]_vars

\* ------------------------------------------------------------------ C16
\* Every id that an add_expense has returned, or a delete_expense has removed, so far.
IdsSoFar == DOMAIN added_by \cup DOMAIN deleted_by \cup {r.id : r \in expenses}

\* C16: the id that an add_expense is about to return is larger than every id
\* returned or held so far, also when the expense with the largest id has been
\* deleted; no two add_expense calls have returned the same id.
C16_IdsIncrease ==
    /\ \A t \in Tasks :
          task[t].pc = "add_commit" => \A id \in IdsSoFar : task[t].id > id
    /\ \A t \in Tasks :
          (Done(t) /\ task[t].op = "add_expense" /\ Succeeded(t))
          => task[t].result.value \in DOMAIN added_by
    /\ \A t1, t2 \in Tasks :
          ( /\ t1 # t2
            /\ Done(t1) /\ task[t1].op = "add_expense" /\ Succeeded(t1)
            /\ Done(t2) /\ task[t2].op = "add_expense" /\ Succeeded(t2) )
          => task[t1].result.value # task[t2].result.value

\* The only expense, which had the largest id, has been deleted, and an add_expense
\* has inserted into the empty table and is about to return the next id.
C16_Witness ==
    \E t1, t2 \in Tasks :
        /\ Done(t1) /\ task[t1].op = "delete_expense" /\ Succeeded(t1)
        /\ task[t1].expense_id = 1
        /\ task[t2].pc = "add_commit"
        /\ task[t2].id = 2
        /\ expenses = {}

\* ------------------------------------------------------------------ C17
\* The shape of an address: a local part that is not empty, one "@", a domain with a dot.
EmailShape(email) ==
    \E i \in 1..Len(email) :
        /\ email[i] = "@"
        /\ \A j \in 1..Len(email) : email[j] = "@" => j = i
        /\ i > 1
        /\ Contains(SubSeq(email, i + 1, Len(email)), ".")

\* C17: a register_user call whose email does not have the shape of an address
\* returns the "Invalid email format" error, and no account row carries such an email.
C17_MalformedEmailRejected ==
    /\ \A t \in Tasks :
          (Done(t) /\ task[t].op = "register_user" /\ ~ EmailShape(task[t].email))
          => Returned(t, "Invalid email format.")
    /\ \A r \in users : EmailShape(r.email)

\* ------------------------------------------------------------------ C18
\* Exact sum of the amounts of a set of rows.
RECURSIVE ExactSumOf(_)
ExactSumOf(rows) ==
    IF rows = {} THEN 0
    ELSE LET r == CHOOSE x \in rows : TRUE
         IN  r.amount + ExactSumOf(rows \ {r})

\* The caller's expenses that a summarize call is about: in the range, both ends
\* included, and of the given category when one is given.
Summarized(t) ==
    {r \in expenses :
        /\ r.user_id = CallerOf(t)
        /\ DayOf(task[t].start_date) <= DayOf(r.date)
        /\ DayOf(r.date) <= DayOf(task[t].end_date)
        /\ task[t].category # NoCategory => r.category = task[t].category}

\* The grouping, counting and ordering part of C18, whatever the sums are.
GroupedAndOrdered(t) ==
    LET parts == task[t].result.value.summary
        rows == Summarized(t)
    IN  /\ ~ Raised(t) /\ task[t].result.status # "error"
        /\ {parts[i].category : i \in 1..Len(parts)} = {r.category : r \in rows}
        /\ \A i, j \in 1..Len(parts) : i # j => parts[i].category # parts[j].category
        /\ \A i \in 1..Len(parts) :
              parts[i].count = Cardinality({r \in rows : r.category = parts[i].category})
        /\ \A i, j \in 1..Len(parts) :
              i < j => parts[i].total_amount >= parts[j].total_amount
        /\ rows = {} => task[t].result.value.total_amount = 0 /\ parts = << >>

\* C18: summarize returns one entry per category among the caller's expenses in the
\* range (of the given category only, when one is given), each with the sum of the
\* amounts and the number of the rows of that category, larger sums first; with no
\* matching row it returns total 0 and an empty breakdown, not an error.
C18_BreakdownPerCategory ==
    \A t \in Tasks :
        (Done(t) /\ task[t].op = "summarize" /\ task[t].caller_at_call # 0)
        => /\ GroupedAndOrdered(t)
           /\ \A i \in 1..Len(task[t].result.value.summary) :
                 task[t].result.value.summary[i].total_amount
                    = ExactSumOf({r \in Summarized(t) :
                                    r.category = task[t].result.value.summary[i].category})

\* The same without the sums.
C18_GroupingOnly ==
    \A t \in Tasks :
        (Done(t) /\ task[t].op = "summarize" /\ task[t].caller_at_call # 0)
        => GroupedAndOrdered(t)

\* ------------------------------------------------------------------ C19
\* Task t takes a step of a delete_expense call.
DeleteStep(t) == task'[t] # task[t] /\ task'[t].op = "delete_expense"

\* The step ends the call with success.
EndsWithSuccess(t) == task'[t].pc = "done" /\ task'[t].result.status = "success"

\* C19: the step with which a delete_expense call returns success removes the one
\* expense with the addressed id and nothing else; every other step of a
\* delete_expense call, the one with which it fails included, leaves the expenses
\* as they are; no step of a delete_expense call changes an account row.
C19_DeleteRemovesOneRow ==
    [][ \A t \in Tasks :
          DeleteStep(t)
          => /\ users' = users
             /\ IF EndsWithSuccess(t)
                  THEN \E r \in expenses :
                          r.id = task'[t].expense_id /\ expenses' = expenses \ {r}
                  ELSE expenses' = expenses ]_vars

\* The same, a success that finds the addressed expense already removed allowed.
C19_FrameOnly ==
    [][ \A t \in Tasks :
          DeleteStep(t)
          => /\ users' = users
             /\ IF EndsWithSuccess(t)
                  THEN /\ expenses' = {r \in expenses : r.id # task'[t].expense_id}
                       /\ \A r \in expenses \ expenses' : r.user_id = CallerOf(t)
                  ELSE expenses' = expenses ]_vars

\* ------------------------------------------------------------------ C20
\* An account row without the two columns that a rotation sets.
Fixed(r) ==
    [user_id |-> r.user_id, email |-> r.email, name |-> r.name,
     password_hash |-> r.password_hash, salt |-> r.salt,
     registered_at |-> r.registered_at]

\* Task t takes the step with which a regenerate_api_key call returns success.
RotationSucceeds(t) ==
    /\ task'[t] # task[t]
    /\ task'[t].op = "regenerate_api_key"
    /\ task'[t].pc = "done"
    /\ task'[t].result.status = "success"

\* C20: no step removes an account or changes an account's user_id or email, and each
\* account keeps its single row; the step with which a regenerate_api_key call
\* returns success changes the api_key and the rotation time of the one account it
\* returns and nothing else, so that for every range the expenses listed with the
\* new key are those listed with the replaced key before the step; no other step
\* of a regenerate_api_key call changes anything in the two tables.
C20_AccountsAreStable ==
    [][ /\ \A r \in users :
              Cardinality({n \in users' : n.user_id = r.user_id}) = 1
              /\ \E n \in users' : Fixed(n) = Fixed(r)
        /\ \A t \in Tasks :
              (task'[t] # task[t] /\ task'[t].op = "regenerate_api_key")
              => /\ expenses' = expenses
                 /\ IF RotationSucceeds(t)
                      THEN LET id == task'[t].result.value.user_id
                               new_key == task'[t].result.value.api_key
                           IN  /\ {r \in users' : r.user_id # id}
                                     = {r \in users : r.user_id # id}
                               /\ Lookup(users', new_key) = id
                               /\ Lookup(users, task'[t].old_key) = id
                               /\ \A start_date, end_date \in Dates :
                                     ListQuery(expenses', Lookup(users', new_key),
                                               start_date, end_date)
                                       = ListQuery(expenses, Lookup(users, task'[t].old_key),
                                                   start_date, end_date)
                      ELSE users' = users ]_vars

\* A rotation has succeeded for an account that holds an expense, and the other
\* account is still there.
C20_Witness ==
    \E t \in Tasks :
        /\ Done(t) /\ task[t].op = "regenerate_api_key" /\ Succeeded(t)
        /\ \E r \in expenses : r.user_id = Lookup(users, task[t].result.value.api_key)
        /\ \E r \in users : r.user_id # task[t].result.value.user_id

====
